---- MODULE Spec2Model ----
(***************************************************************************)
(* A model of DejaView/DejaView/create_model.py: a straight-line script    *)
(* that loads a pretrained MobileNetV2, switches it to evaluation mode,    *)
(* builds a dummy input and exports the model to ONNX with dynamic axes.   *)
(*                                                                         *)
(* The script's own state is its program counter and its three module      *)
(* level names (model, dynamic_axes, dummy_input).  Around it stands the    *)
(* environment the library calls read and write: the installed packages,  *)
(* the network, the file system (the target path, the pretrained-weight    *)
(* cache, any other path) and the exporter backend's operator sets.        *)
(* The behaviour of the called libraries (torchvision's model zoo, the     *)
(* ONNX exporter, an inference engine that later loads the artifact) is     *)
(* not code of the script; it is modelled by the operators of the          *)
(* "library" sections below.                                               *)
(***************************************************************************)
EXTENDS Integers, Sequences, FiniteSets, TLC

VARIABLES
    pc,            \* the statement the interpreter executes next
    exit_status,   \* the process's exit status (Running while it runs)
    env,           \* the environment of the process, fixed over a behaviour
    fs,            \* the file system: path -> file
    rng,           \* the seed of torch's default random generator
    model,         \* line 3: model
    dynamic_axes,  \* lines 5-8: dynamic_axes
    dummy_input,   \* line 9: dummy_input
    steps,         \* the statements this run has attempted, with their outcome
    runs,          \* how many times the script has been started
    produced,      \* every artifact a successful export wrote, with the seed
    inference      \* the last run of the artifact by an inference engine

vars == <<pc, exit_status, env, fs, rng, model, dynamic_axes, dummy_input,
          steps, runs, produced, inference>>

(***************************************************************************)
(* Bounds of the model.                                                    *)
(***************************************************************************)
\* The script is started at most MaxRuns times in one behaviour.
MaxRuns == 2
\* The default generator's seed is one of 1..MaxSeed.
MaxSeed == 2

Seeds == 1..MaxSeed
\* The shapes an inference engine feeds the artifact.
BatchSizes == {1, 4}
ChannelCounts == {1, 3}
SpatialSizes == {224, 320}
TestShapes ==
    {<<n, c, h, w>> : n \in BatchSizes, c \in ChannelCounts,
                      h \in SpatialSizes, w \in SpatialSizes}

(***************************************************************************)
(* The script's literals.                                                  *)
(***************************************************************************)
\* line 3: models.mobilenet_v2
ARCH == "mobilenet_v2"
PretrainedOff == FALSE
\* line 3: pretrained=True
pretrained == TRUE
TrainSets == TRUE
\* line 4: model.eval() sets model.training to False
EvalSets == FALSE
AxesWithOutputClasses ==
    ("input" :> (0 :> "batch_size" @@ 2 :> "height" @@ 3 :> "width"))
    @@ ("output" :> (0 :> "batch_size" @@ 1 :> "classes"))
AxesBatchOnly ==
    ("input" :> (0 :> "batch_size")) @@ ("output" :> (0 :> "batch_size"))
AxesWithChannels ==
    ("input" :> (0 :> "batch_size" @@ 1 :> "channels" @@ 2 :> "height"
                 @@ 3 :> "width"))
    @@ ("output" :> (0 :> "batch_size"))
\* lines 5-8: the dynamic_axes literal, tensor name -> axis -> symbolic name
DYNAMIC_AXES ==
    ("input" :> (0 :> "batch_size" @@ 2 :> "height" @@ 3 :> "width"))
    @@ ("output" :> (0 :> "batch_size"))
\* line 9: torch.randn(1, 3, 224, 224)
DUMMY_SHAPE == <<1, 3, 224, 224>>
\* line 10: the path handed to the exporter
TargetPath == "Static\\mobilenetv2_dynamic.onnx"
ExportPathsWithSidecar == {TargetPath, "other"}
\* line 10: the export call is given one path to write
ExportPaths == {TargetPath}
\* line 11
input_names == <<"input">>
\* line 11
output_names == <<"output">>
\* line 12
opset_version == 11

(***************************************************************************)
(* Values.                                                                 *)
(***************************************************************************)
Running == -1
NoWeights == [source |-> "none", seed |-> 0]
NoModel == [loaded |-> FALSE, arch |-> "", weights |-> NoWeights,
            training |-> FALSE]
Unbound == [t \in {} |-> 0]
NoDummy == [bound |-> FALSE, shape |-> <<>>, values |-> 0]
NoArtifact == [input_names |-> <<>>, output_names |-> <<>>, opset |-> 0,
               dims |-> Unbound, graph |-> [arch |-> "", training |-> FALSE],
               weights |-> NoWeights]
Absent == [kind |-> "absent", artifact |-> NoArtifact]
Stale == [kind |-> "stale", artifact |-> NoArtifact]
Partial == [kind |-> "partial", artifact |-> NoArtifact]
Checkpoint == [kind |-> "checkpoint", artifact |-> NoArtifact]
ArtifactFile(a) == [kind |-> "artifact", artifact |-> a]
NoInference == [ran |-> FALSE, shape |-> <<>>, ok |-> FALSE, out |-> <<>>]

\* The pretrained weights' place in torch hub's cache.
WeightCachePath == "hub/checkpoints/mobilenet_v2.pth"
\* Any path that is neither the target nor the weight cache.
OtherPath == "other"
Paths == {TargetPath, WeightCachePath, OtherPath}

Attempted(name) == \E i \in 1..Len(steps) : steps[i].name = name
Succeeded(name) == \E i \in 1..Len(steps) : steps[i].name = name /\ steps[i].ok
Failed(name) == \E i \in 1..Len(steps) : steps[i].name = name /\ ~steps[i].ok
Terminated == pc \in {"done", "failed"}

(***************************************************************************)
(* Library: the interpreter.  No statement of the script stands in a try   *)
(* block, so an exception raised by any statement ends the process; a      *)
(* process that runs off the end of the script exits with status 0, one    *)
(* ended by an uncaught exception with status 1.                            *)
(***************************************************************************)
NextStmt(step) ==
    CASE step = "import_torch" -> "import_torchvision"
      [] step = "import_torchvision" -> "load"
      [] step = "load" -> "eval"
      [] step = "eval" -> "axes"
      [] step = "axes" -> "dummy"
      [] step = "dummy" -> "export"
      [] step = "export" -> "done"

AfterFailureSwallowed(step) == IF step = "export" THEN "done" ELSE "failed"
AfterFailureRetry(step) == IF step = "load" THEN "load" ELSE "failed"
\* Where control goes when `step` raises: nothing catches it.
AfterFailure(step) == "failed"

ExitStatus(p) == IF p = "done" THEN 0 ELSE IF p = "failed" THEN 1 ELSE Running

Succeed(step) ==
    /\ pc' = NextStmt(step)
    /\ exit_status' = ExitStatus(pc')
    /\ steps' = Append(steps, [name |-> step, ok |-> TRUE])

Fail(step) ==
    /\ pc' = AfterFailure(step)
    /\ exit_status' = ExitStatus(pc')
    /\ steps' = Append(steps, [name |-> step, ok |-> FALSE])

(***************************************************************************)
(* Library: torchvision's model zoo.  With pretrained=True the weights are *)
(* the published checkpoint, read from the hub cache and downloaded into   *)
(* it first when it is not there; without it they are drawn from the       *)
(* default generator.  A freshly constructed module is in training mode.   *)
(***************************************************************************)
NeedsDownload(files) ==
    pretrained /\ files[WeightCachePath].kind # "checkpoint"

LoadedWeights(seed) ==
    IF pretrained THEN [source |-> "pretrained", seed |-> 0]
    ELSE [source |-> "random", seed |-> seed]

\* MobileNetV2's first convolution takes 3 channels.
IN_CHANNELS == 3
\* MobileNetV2's classifier yields 1000 class scores.
NUM_CLASSES == 1000

\* The forward pass is defined on (N, 3, H, W) and yields (N, 1000): every
\* convolution is padded, and the features are pooled to 1x1 before the
\* classifier, whatever the spatial size.
ForwardDefined(arch, shape) ==
    /\ arch = ARCH
    /\ Len(shape) = 4
    /\ shape[2] = IN_CHANNELS
    /\ \A i \in 1..4 : shape[i] >= 1

ForwardShape(arch, shape) == <<shape[1], NUM_CLASSES>>

(***************************************************************************)
(* Library: the ONNX exporter.  It validates the operator-set version,     *)
(* traces the model on the example input, serializes the graph, and only   *)
(* then opens the target path for writing and writes the bytes.            *)
(***************************************************************************)
\* The operator sets two exporter backends support: one older than the
\* script's version, one that includes it.
ExporterBackends == {7..10, 7..12}

OpsetUnchecked(e, v) == TRUE
OpsetSupported(e, v) == v \in e.opsets

\* open(path, "wb"): the directory of the target path, as the operating
\* system resolves the path's separators, must exist and be writable.
CanOpen(e) == e.dir_exists /\ e.writable

Traceable(m, d) == m.loaded /\ d.bound /\ ForwardDefined(m.arch, d.shape)

\* The shape each named tensor had while tracing.
TracedShapes(m, d) ==
    (input_names[1] :> d.shape)
    @@ (output_names[1] :> ForwardShape(m.arch, d.shape))

\* An axis named in dynamic_axes is exported symbolic; any other axis is
\* exported with the size it had while tracing.  Axes count from 0.
DeclaredDim(axes, t, a, size) ==
    IF t \in DOMAIN axes /\ a \in DOMAIN axes[t]
    THEN [dyn |-> TRUE, size |-> 0, name |-> axes[t][a]]
    ELSE [dyn |-> FALSE, size |-> size, name |-> ""]

Declared(axes, traced) ==
    [t \in DOMAIN traced |->
        [i \in 1..Len(traced[t]) |-> DeclaredDim(axes, t, i - 1, traced[t][i])]]

\* The artifact: tensor names, operator set, declared dimensions, the traced
\* graph and the model's weights.  The dummy input's values are not part of
\* it: tracing records operations, not values.
Serialize(m, d, axes) ==
    [input_names |-> input_names,
     output_names |-> output_names,
     opset |-> opset_version,
     dims |-> Declared(axes, TracedShapes(m, d)),
     graph |-> [arch |-> m.arch, training |-> m.training],
     weights |-> m.weights]

\* What the export call can do to the file at the target path, which holds
\* `before`: fail before any I/O (unsupported operator set, an error while
\* tracing), fail to open the path, fail while writing (a truncated file is
\* left), or write the artifact.
ExportResults(e, m, d, axes, before) ==
    IF ~OpsetSupported(e, opset_version) \/ ~Traceable(m, d)
    THEN {[ok |-> FALSE, file |-> before]}
    ELSE {[ok |-> FALSE, file |-> before]}
         \cup (IF CanOpen(e)
               THEN {[ok |-> TRUE, file |-> ArtifactFile(Serialize(m, d, axes))],
                     [ok |-> FALSE, file |-> Partial]}
               ELSE {})

(***************************************************************************)
(* Library: an inference engine that loads the artifact.  An input must    *)
(* match every declared dimension that is not symbolic; the graph then     *)
(* computes the architecture's forward pass.                               *)
(***************************************************************************)
Accepts(a, shape) ==
    LET decl == a.dims[a.input_names[1]]
    IN  /\ Len(shape) = Len(decl)
        /\ \A i \in 1..Len(decl) : decl[i].dyn \/ decl[i].size = shape[i]

RunArtifact(a, shape) ==
    IF Accepts(a, shape) /\ ForwardDefined(a.graph.arch, shape)
    THEN [ran |-> TRUE, shape |-> shape, ok |-> TRUE,
          out |-> ForwardShape(a.graph.arch, shape)]
    ELSE [ran |-> TRUE, shape |-> shape, ok |-> FALSE, out |-> <<>>]

(***************************************************************************)
(* The initial state: the process is about to execute line 1.              *)
(***************************************************************************)
Envs ==
    [torch_installed : BOOLEAN, torchvision_installed : BOOLEAN,
     network : BOOLEAN, dir_exists : BOOLEAN, writable : BOOLEAN,
     opsets : ExporterBackends]

\* A file system the script can be started on: no file lies in a directory
\* that does not exist.
InitialFiles(e) ==
    {f \in [Paths -> {Absent, Stale, Checkpoint}] :
        /\ f[TargetPath] \in (IF e.dir_exists THEN {Absent, Stale} ELSE {Absent})
        /\ f[WeightCachePath] \in {Absent, Checkpoint}
        /\ f[OtherPath] = Stale}

Init ==
    /\ pc = "import_torch"
    /\ exit_status = Running
    /\ env \in Envs
    /\ fs \in InitialFiles(env)
    /\ rng = 0
    /\ model = NoModel
    /\ dynamic_axes = Unbound
    /\ dummy_input = NoDummy
    /\ steps = <<>>
    /\ runs = 1
    /\ produced = <<>>
    /\ inference = NoInference

(***************************************************************************)
(* The statements of the script.                                           *)
(***************************************************************************)
\* line 1: import torch.  The default generator is seeded nondeterministically.
ImportTorch ==
    /\ pc = "import_torch"
    /\ IF env.torch_installed
       THEN Succeed("import_torch") /\ \E s \in Seeds : rng' = s
       ELSE Fail("import_torch") /\ UNCHANGED rng
    /\ UNCHANGED <<env, fs, model, dynamic_axes, dummy_input, runs, produced,
                   inference>>

\* line 2: import torchvision.models as models
ImportTorchvision ==
    /\ pc = "import_torchvision"
    /\ IF env.torchvision_installed
       THEN Succeed("import_torchvision")
       ELSE Fail("import_torchvision")
    /\ UNCHANGED <<env, fs, rng, model, dynamic_axes, dummy_input, runs,
                   produced, inference>>

\* line 3: model = models.mobilenet_v2(pretrained=True)
LoadModel ==
    /\ pc = "load"
    /\ IF NeedsDownload(fs) /\ ~env.network
       THEN Fail("load") /\ UNCHANGED <<fs, model>>
       ELSE /\ Succeed("load")
            /\ model' = [loaded |-> TRUE, arch |-> ARCH,
                         weights |-> LoadedWeights(rng), training |-> TRUE]
            /\ fs' = IF NeedsDownload(fs)
                     THEN [fs EXCEPT ![WeightCachePath] = Checkpoint]
                     ELSE fs
    /\ UNCHANGED <<env, rng, dynamic_axes, dummy_input, runs, produced,
                   inference>>

\* line 4: model.eval()
Eval ==
    /\ pc = "eval"
    /\ model' = [model EXCEPT !.training = EvalSets]
    /\ Succeed("eval")
    /\ UNCHANGED <<env, fs, rng, dynamic_axes, dummy_input, runs, produced,
                   inference>>

\* lines 5-8: dynamic_axes = {...}
AssignDynamicAxes ==
    /\ pc = "axes"
    /\ dynamic_axes' = DYNAMIC_AXES
    /\ Succeed("axes")
    /\ UNCHANGED <<env, fs, rng, model, dummy_input, runs, produced, inference>>

\* line 9: dummy_input = torch.randn(1, 3, 224, 224)
BuildDummyInput ==
    /\ pc = "dummy"
    /\ dummy_input' = [bound |-> TRUE, shape |-> DUMMY_SHAPE, values |-> rng]
    /\ Succeed("dummy")
    /\ UNCHANGED <<env, fs, rng, model, dynamic_axes, runs, produced, inference>>

\* The export call as it runs in environment e.
ExportIn(e) ==
    /\ pc = "export"
    /\ \E r \in ExportResults(e, model, dummy_input, dynamic_axes,
                              fs[TargetPath]) :
          /\ fs' = [p \in Paths |-> IF p \in ExportPaths THEN r.file ELSE fs[p]]
          /\ IF r.ok
             THEN /\ Succeed("export")
                  /\ produced' = Append(produced,
                                        [seed |-> dummy_input.values,
                                         artifact |-> r.file.artifact])
             ELSE Fail("export") /\ UNCHANGED produced
    /\ UNCHANGED <<env, rng, model, dynamic_axes, dummy_input, runs, inference>>

ExportAfterMakedirs == ExportIn([env EXCEPT !.dir_exists = TRUE])
\* lines 10-12: torch.onnx.export(model, dummy_input, path, ...), called in
\* the process's environment as it is: the script creates no directory.
Export == ExportIn(env)

Step ==
    \/ ImportTorch
    \/ ImportTorchvision
    \/ LoadModel
    \/ Eval
    \/ AssignDynamicAxes
    \/ BuildDummyInput
    \/ Export

(***************************************************************************)
(* The environment: the script is run again in a fresh process on the same *)
(* file system; an inference engine runs the artifact on disk.             *)
(***************************************************************************)
StartRun ==
    /\ Terminated
    /\ runs < MaxRuns
    /\ runs' = runs + 1
    /\ pc' = "import_torch"
    /\ exit_status' = Running
    /\ rng' = 0
    /\ model' = NoModel
    /\ dynamic_axes' = Unbound
    /\ dummy_input' = NoDummy
    /\ steps' = <<>>
    /\ inference' = NoInference
    /\ UNCHANGED <<env, fs, produced>>

Infer ==
    /\ Terminated
    /\ fs[TargetPath].kind = "artifact"
    /\ \E shape \in TestShapes :
          inference' = RunArtifact(fs[TargetPath].artifact, shape)
    /\ UNCHANGED <<pc, exit_status, env, fs, rng, model, dynamic_axes,
                   dummy_input, steps, runs, produced>>

Next == Step \/ StartRun \/ Infer

Spec == Init /\ [][Next]_vars

\* The interpreter executes the next statement, and every library call
\* returns or raises.
FairSpec == Spec /\ WF_vars(Step)

(***************************************************************************)
(* Properties.                                                             *)
(***************************************************************************)
\* The axes an artifact declares symbolic, as <<tensor, axis>> pairs.
DynamicAxesOf(a) ==
    UNION {{<<t, i - 1>> : i \in {j \in DOMAIN a.dims[t] : a.dims[t][j].dyn}} :
           t \in DOMAIN a.dims}

OnDisk == fs[TargetPath].artifact

\* C1: after a successful run the file at the target path is an artifact that
\* declares exactly the tensors 'input' and 'output', uses operator set 11,
\* and whose dynamic axes are exactly input 0, 2, 3 and output 0.
C1_ArtifactDeclaration ==
    pc = "done" =>
        /\ fs[TargetPath].kind = "artifact"
        /\ OnDisk.input_names = <<"input">>
        /\ OnDisk.output_names = <<"output">>
        /\ DOMAIN OnDisk.dims = {"input", "output"}
        /\ OnDisk.opset = 11
        /\ DynamicAxesOf(OnDisk) =
              {<<"input", 0>>, <<"input", 2>>, <<"input", 3>>, <<"output", 0>>}

C1_Witness == pc = "done" /\ fs[TargetPath].kind = "artifact"

\* C2: when the target directory does not exist, an attempted export has
\* failed and ended the process, and no file, complete or truncated, is ever
\* at the target path.
C2_MissingDirectory ==
    ~env.dir_exists =>
        /\ fs[TargetPath].kind = "absent"
        /\ Attempted("export") =>
              (Failed("export") /\ pc = "failed" /\ exit_status = 1)

C2_Witness ==
    /\ ~env.dir_exists /\ env.writable /\ opset_version \in env.opsets
    /\ Failed("export")

\* Only the target path is ever written, at the export step, which ends the
\* run; a run that succeeds has written the artifact there.
OnlyTargetWritten ==
    /\ \A p \in Paths \ {TargetPath} : fs'[p] = fs[p]
    /\ fs'[TargetPath] # fs[TargetPath] => (pc = "export" /\ Terminated')
    /\ (pc' = "done" /\ pc # "done") => fs'[TargetPath].kind = "artifact"

\* C3 as stated: in every run the script writes at most one file, on success
\* exactly one, the artifact at the target path, written once; no step
\* creates or changes any other persisted state.
C3_Original == [][OnlyTargetWritten]_vars

\* As OnlyTargetWritten, but the model-load step may store the pretrained
\* checkpoint in the weight cache when it is not cached yet.
TargetAndCacheWritten ==
    /\ \A p \in Paths \ {TargetPath, WeightCachePath} : fs'[p] = fs[p]
    /\ fs'[WeightCachePath] # fs[WeightCachePath] =>
          /\ pc = "load"
          /\ fs[WeightCachePath].kind = "absent"
          /\ fs'[WeightCachePath] = Checkpoint
    /\ fs'[TargetPath] # fs[TargetPath] => (pc = "export" /\ Terminated')
    /\ (pc' = "done" /\ pc # "done") => fs'[TargetPath].kind = "artifact"

\* C3, amended: apart from the pretrained-weight cache entry, which the
\* model-load step creates when the weights are not cached yet, the script
\* writes at most one file in a run, on success exactly one, the artifact at
\* the target path, written once at the export step; no other path changes.
C3_Amended == [][TargetAndCacheWritten]_vars

C3_Witness ==
    /\ pc = "done" /\ fs[TargetPath].kind = "artifact"
    /\ runs = 1 /\ fs[WeightCachePath].kind = "checkpoint"

\* C4: when the exporter backend does not support the operator-set version
\* it is passed, an attempted export has failed and nothing is written at the
\* target path: it holds neither an artifact nor a truncated file.
C4_UnsupportedOpset ==
    opset_version \notin env.opsets =>
        /\ fs[TargetPath].kind \in {"absent", "stale"}
        /\ Attempted("export") => (Failed("export") /\ pc = "failed")

C4_Witness ==
    /\ opset_version \notin env.opsets
    /\ env.dir_exists /\ env.writable
    /\ Failed("export")

AllStepsSucceeded ==
    /\ Succeeded("load")
    /\ Succeeded("eval")
    /\ Succeeded("dummy")
    /\ Succeeded("export")

\* C5: the exit status is 0 exactly when model load, mode switch, dummy-input
\* construction and export have all succeeded; a failed model load or export
\* has ended the process with a nonzero status.
C5_ExitStatus ==
    /\ exit_status = 0 <=> AllStepsSucceeded
    /\ (Failed("load") \/ Failed("export")) =>
          (pc = "failed" /\ exit_status # 0 /\ exit_status # Running)

C5_Witness == Failed("export") /\ exit_status = 1

\* C6: any two artifacts that successful runs produced carry identical
\* weights, whatever the dummy inputs' random values were, and are identical
\* altogether (tensor names, declared axes, graph, weights) when the dummy
\* inputs were drawn from the same seed.
C6_Reproducible ==
    \A i, j \in 1..Len(produced) :
        /\ produced[i].artifact.weights = produced[j].artifact.weights
        /\ produced[i].seed = produced[j].seed =>
              produced[i].artifact = produced[j].artifact

C6_Witness ==
    /\ Len(produced) = 2
    /\ produced[1].seed # produced[2].seed
    /\ produced[1].artifact.weights.source = "pretrained"

\* C7: the artifact on disk runs on every input (N, 3, H, W), whatever the
\* batch size, height and width, and yields (N, 1000); (1, 3, 224, 224)
\* yields (1, 1000) and (4, 3, 320, 320) does not fail.
C7_DynamicShapes ==
    /\ fs[TargetPath].kind = "artifact" =>
          /\ \A s \in TestShapes :
                s[2] = 3 => /\ RunArtifact(OnDisk, s).ok
                            /\ RunArtifact(OnDisk, s).out = <<s[1], 1000>>
          /\ RunArtifact(OnDisk, <<1, 3, 224, 224>>).out = <<1, 1000>>
          /\ RunArtifact(OnDisk, <<4, 3, 320, 320>>).ok
    /\ (inference.ran /\ inference.shape[2] = 3) =>
          (inference.ok /\ inference.out = <<inference.shape[1], 1000>>)

C7_Witness ==
    inference.ran /\ inference.shape = <<4, 3, 320, 320>> /\ inference.ok

StepOrder ==
    <<"import_torch", "import_torchvision", "load", "eval", "axes", "dummy",
      "export">>

StepsInOrder ==
    /\ Len(steps) <= Len(StepOrder)
    /\ \A i \in 1..Len(steps) : steps[i].name = StepOrder[i]

ExportGuarded ==
    (pc = "export" \/ Attempted("export")) =>
        (model.loaded /\ ~model.training /\ dummy_input.bound)

ModeOnlyToInference ==
    (model.loaded /\ model'.loaded /\ model'.training # model.training) =>
        (pc = "eval" /\ model.training /\ ~model'.training)

\* C8: the statements run in the order construct, eval, dummy input, export;
\* the exporter is reached only with the model in inference mode and the
\* dummy input built; the model's mode changes only from training to
\* inference, at the eval statement, so once and never back.
C8_Order ==
    /\ [](StepsInOrder /\ ExportGuarded)
    /\ [][ModeOnlyToInference]_vars

C8_Witness ==
    Attempted("export") /\ model.loaded /\ ~model.training /\ dummy_input.bound

NoRetry ==
    \A i, j \in 1..Len(steps) : steps[i].name = steps[j].name => i = j

FailFast ==
    \A i \in 1..Len(steps) :
        ~steps[i].ok => (i = Len(steps) /\ pc = "failed")

LoadFailureStops == Failed("load") => ~Attempted("export")

\* C9: no statement is attempted twice in a run; a failed statement is the
\* run's last and leaves the process failed; after a failed model load there
\* is no export attempt and the target file does not change; and every run
\* reaches the success or the failed state.
C9_FailFast ==
    /\ [](NoRetry /\ FailFast /\ LoadFailureStops)
    /\ [][Failed("load") => fs'[TargetPath] = fs[TargetPath]]_vars
    /\ (~Terminated ~> Terminated)

C9_Witness == Failed("load") /\ pc = "failed" /\ Len(steps) = 3

TracedAtExport == ("input" :> <<1, 3, 224, 224>>) @@ ("output" :> <<1, 1000>>)

\* C10: after a successful run every axis of 'input' and 'output' that
\* dynamic_axes does not name is declared with the size it had when traced
\* with the dummy input; input axis 1 is fixed to 3; the dummy input's shape
\* is accepted, and no input with another channel count is.
C10_FixedAxes ==
    /\ pc = "done" =>
          /\ \A t \in {"input", "output"} :
                \A i \in 1..Len(TracedAtExport[t]) :
                    (i - 1) \notin DOMAIN dynamic_axes[t] =>
                        /\ ~OnDisk.dims[t][i].dyn
                        /\ OnDisk.dims[t][i].size = TracedAtExport[t][i]
          /\ ~OnDisk.dims["input"][2].dyn
          /\ OnDisk.dims["input"][2].size = 3
          /\ Accepts(OnDisk, dummy_input.shape)
          /\ \A s \in TestShapes : s[2] # 3 => ~RunArtifact(OnDisk, s).ok
    /\ (inference.ran /\ inference.shape[2] # 3) => ~inference.ok

C10_Witness ==
    inference.ran /\ inference.shape = <<1, 1, 224, 224>> /\ ~inference.ok
====
